---- MODULE Spec2Model ----
(***************************************************************************)
(* Model of Sudoku_Agent.py: the 9x9 grid, the placement check is_safe,   *)
(* the three cell selectors, the AC-3 propagator ac/revise and the        *)
(* recursive search solve_sudoku, unrolled into an explicit call stack.   *)
(* One behaviour loads one grid and calls solve_sudoku on a fresh copy of *)
(* it once for each of the six (method, heuristic) choices main offers.   *)
(***************************************************************************)
EXTENDS Integers, Sequences, FiniteSets, TLC

VARIABLES
    grid0,      \* the grid as loaded (read_sudoku_from_csv), never written
    board,      \* the grid solve_sudoku works on, board[row][col]
    run,        \* index into Combos of the (method, heuristic) being run
    results,    \* results[i]: what the i-th top-level solve_sudoku returned, so far
    pc,         \* position of the innermost active solve_sudoku call
    stack,      \* one frame per active solve_sudoku call, innermost last
    ret,        \* value being returned by the call that just ended
    domains,    \* ac's local domains[(r, c)]
    queue,      \* ac's local worklist of arcs (xi, yi)
    order,      \* iteration order of get_neighbors' set during this ac call
    probe       \* arguments and result of a direct is_safe call

vars == <<grid0, board, run, results, pc, stack, ret, domains, queue, order, probe>>

----------------------------------------------------------------------------
(* Sizes fixed by the program. *)

N == 9
B == 3

Idx == 0 .. (N - 1)
Digits == 1 .. N
Cell == Idx \X Idx

None == <<>>

\* position of a cell in the row-major scan "for row in range(9): for col in range(9)"
RowMajor(cell) == cell[1] * N + cell[2]

CellAt(k) == <<k \div N, k % N>>

----------------------------------------------------------------------------
(* is_safe *)

\* is_safe without its 3x3 subgrid loop
is_safe_no_block(b, row, col, num) ==
    \A i \in Idx : ~(b[row][i] = num \/ b[i][col] = num)

\* is_safe with the column test dropped from line 43
is_safe_no_column(b, row, col, num) ==
    LET start_row == B * (row \div B)
        start_col == B * (col \div B)
    IN  /\ \A i \in Idx : b[row][i] # num
        /\ \A i \in 0 .. (B - 1) : \A j \in 0 .. (B - 1) :
               b[start_row + i][start_col + j] # num

is_safe(b, row, col, num) ==
    LET start_row == B * (row \div B)
        start_col == B * (col \div B)
    IN  /\ \A i \in Idx : ~(b[row][i] = num \/ b[i][col] = num)
        /\ \A i \in 0 .. (B - 1) : \A j \in 0 .. (B - 1) :
               b[start_row + i][start_col + j] # num

----------------------------------------------------------------------------
(* Cell selectors *)

EmptyCells(b) == {cell \in Cell : b[cell[1]][cell[2]] = 0}

\* the first cell of S met by the row-major scan
FirstInScan(S) == CHOOSE cell \in S : \A other \in S : RowMajor(cell) <= RowMajor(other)

count_constraints(b, row, col) ==
    LET block_row == (row \div B) * B
        block_col == (col \div B) * B
    IN  Cardinality({i \in Idx : b[row][i] # 0})
      + Cardinality({i \in Idx : b[i][col] # 0})
      + Cardinality({ij \in (0 .. (B - 1)) \X (0 .. (B - 1)) :
                        b[block_row + ij[1]][block_col + ij[2]] # 0})

get_domain(b, row, col) ==
    LET start_row == B * (row \div B)
        start_col == B * (col \div B)
    IN  Digits \ ( {b[row][i] : i \in Idx}
                   \cup {b[i][col] : i \in Idx}
                   \cup {b[start_row + ij[1]][start_col + ij[2]] :
                            ij \in (0 .. (B - 1)) \X (0 .. (B - 1))} )

\* "if domain_size < min_domain_size": the first cell of the scan with the
\* smallest domain wins
mrv_heuristic(b) ==
    LET E == EmptyCells(b)
        size(cell) == Cardinality(get_domain(b, cell[1], cell[2]))
    IN  IF E = {} THEN None
        ELSE FirstInScan({cell \in E : \A other \in E : size(cell) <= size(other)})

\* "if degree > max_degree": the first cell of the scan with the largest
\* degree wins
degree_heuristic(b) ==
    LET E == EmptyCells(b)
        deg(cell) == count_constraints(b, cell[1], cell[2])
    IN  IF E = {} THEN None
        ELSE FirstInScan({cell \in E : \A other \in E : deg(cell) >= deg(other)})

find_empty_location(b, heuristic) ==
    IF heuristic = "Degree" THEN degree_heuristic(b)
    ELSE IF heuristic = "MRV" THEN mrv_heuristic(b)
    ELSE IF EmptyCells(b) = {} THEN None
    ELSE FirstInScan(EmptyCells(b))

----------------------------------------------------------------------------
(* AC-3 *)

get_neighbors(r, c, rows, cols) ==
    LET block_r == (r \div B) * B
        block_c == (c \div B) * B
    IN  {<<r, i>> : i \in {i \in 0 .. (cols - 1) : i # c}}
        \cup {<<i, c>> : i \in {i \in 0 .. (rows - 1) : i # r}}
        \cup {ij \in (block_r .. (block_r + B - 1)) \X (block_c .. (block_c + B - 1)) :
                 ij # <<r, c>>}

\* get_neighbors returns a set; "for neighbor in neighbors" walks it in an
\* order the language does not fix.  Two orders are modelled.
NeighborOrders == {"asc", "desc"}

ScanSeq == [k \in 1 .. (N * N) |-> CellAt(k - 1)]

Reverse(s) == [k \in 1 .. Len(s) |-> s[Len(s) + 1 - k]]

NeighborWalk(cell, ord) ==
    LET nb  == get_neighbors(cell[1], cell[2], N, N)
        asc == SelectSeq(ScanSeq, LAMBDA p : p \in nb)
    IN  IF ord = "asc" THEN asc ELSE Reverse(asc)

\* the walks of all cells, computed once
NeighborTable == [cell \in Cell |-> [ord \in NeighborOrders |-> NeighborWalk(cell, ord)]]

NeighborSeq(cell, ord) == NeighborTable[cell][ord]

is_consistent(x, y) == x # y

\* revise with "all" in place of "any" at line 159
RevisedAll(doms, xi, yi) ==
    {x \in doms[xi] : \A y \in doms[yi] : is_consistent(x, y)}

\* domains[xi] after revise(domains, xi, yi)
Revised(doms, xi, yi) ==
    {x \in doms[xi] : \E y \in doms[yi] : is_consistent(x, y)}

\* ac, lines 128-134
InitialDomains(b) ==
    [cell \in Cell |-> IF b[cell[1]][cell[2]] = 0 THEN Digits ELSE {b[cell[1]][cell[2]]}]

\* the arcs one cell contributes to the initial worklist, lines 139-141
ArcsFrom(cell, ord) ==
    LET nbs == NeighborSeq(cell, ord)
    IN  [k \in 1 .. Len(nbs) |-> <<cell, nbs[k]>>]

\* the arcs of the cells lo .. hi of the row-major scan, in scan order
RECURSIVE ArcsOfScan(_, _, _, _)
ArcsOfScan(b, ord, lo, hi) ==
    IF lo = hi
    THEN LET cell == ScanSeq[lo]
         IN  IF b[cell[1]][cell[2]] = 0 THEN ArcsFrom(cell, ord) ELSE <<>>
    ELSE LET mid == (lo + hi) \div 2
         IN  ArcsOfScan(b, ord, lo, mid) \o ArcsOfScan(b, ord, mid + 1, hi)

\* ac, lines 136-141
InitialQueue(b, ord) == ArcsOfScan(b, ord, 1, N * N)

\* the re-enqueueing loop without "if neighbor != yi"
RequeuedAll(xi, yi, ord) ==
    LET nbs == NeighborSeq(xi, ord)
    IN  [k \in 1 .. Len(nbs) |-> <<nbs[k], xi>>]

\* the arcs appended after revise(xi, yi) shrank domains[xi], lines 149-152
Requeued(xi, yi, ord) ==
    LET nbs  == NeighborSeq(xi, ord)
        kept == SelectSeq(nbs, LAMBDA neighbor : neighbor # yi)
    IN  [k \in 1 .. Len(kept) |-> <<kept[k], xi>>]

\* ac's locals after one iteration of "while queue", lines 144-152;
\* failed: line 147 was reached
AcIteration(ac, ord) ==
    LET xi  == Head(ac.queue)[1]
        yi  == Head(ac.queue)[2]
        dxi == Revised(ac.domains, xi, yi)
    IN  IF dxi = ac.domains[xi]
        THEN [ac EXCEPT !.queue = Tail(ac.queue)]
        ELSE IF dxi = {}
        THEN [domains |-> [ac.domains EXCEPT ![xi] = dxi],
              queue   |-> Tail(ac.queue),
              failed  |-> TRUE]
        ELSE [domains |-> [ac.domains EXCEPT ![xi] = dxi],
              queue   |-> Tail(ac.queue) \o Requeued(xi, yi, ord),
              failed  |-> FALSE]

AcBurst == 128

\* up to k iterations of the loop
RECURSIVE AcIterations(_, _, _)
AcIterations(ac, ord, k) ==
    IF k = 0 \/ ac.failed \/ ac.queue = <<>> THEN ac
    ELSE AcIterations(AcIteration(ac, ord), ord, k - 1)

----------------------------------------------------------------------------
(* Input grids: a solved grid with some cells blanked and at most one cell *)
(* overwritten by another digit.                                           *)

MaxHoles == 3

Solved == [r \in Idx |-> [c \in Idx |-> ((B * (r % B) + (r \div B) + c) % N) + 1]]

HoleCandidates == {<<0, 0>>, <<0, 1>>, <<0, 4>>, <<1, 0>>, <<4, 0>>, <<8, 1>>}

HoleSets == {H \in SUBSET HoleCandidates : Cardinality(H) <= MaxHoles}

NoOverwrite == [cell |-> None, val |-> 0]

Overwrites ==
    {NoOverwrite} \cup [cell : {<<0, 2>>, <<1, 1>>}, val : {1, 5}]

InputGrid(H, ow) ==
    [r \in Idx |-> [c \in Idx |->
        IF <<r, c>> = ow.cell THEN ow.val
        ELSE IF <<r, c>> \in H THEN 0
        ELSE Solved[r][c]]]

InputGrids == {InputGrid(H, ow) : H \in HoleSets, ow \in Overwrites}

EmptyGrid == [r \in Idx |-> [c \in Idx |-> 0]]

----------------------------------------------------------------------------
(* The six (method, heuristic) choices of main, lines 225-248 *)

Combos ==
    << [method |-> "backtracking", heuristic |-> "none"],
       [method |-> "backtracking", heuristic |-> "Degree"],
       [method |-> "backtracking", heuristic |-> "MRV"],
       [method |-> "arc",          heuristic |-> "none"],
       [method |-> "arc",          heuristic |-> "Degree"],
       [method |-> "arc",          heuristic |-> "MRV"] >>

method == Combos[run].method
heuristic == Combos[run].heuristic

----------------------------------------------------------------------------
(* solve_sudoku as a stack machine *)

\* locals of one solve_sudoku call; entry is the grid as the call found it
Frame(b) == [row |-> -1, col |-> -1, num |-> 0, entry |-> b]

Top == stack[Len(stack)]

SetTop(f) == [stack EXCEPT ![Len(stack)] = f]

NoDomains == <<>>

AcIdle == /\ domains' = NoDomains
          /\ queue' = <<>>
          /\ order' = "none"

NoProbe == [row |-> -1, col |-> -1, num |-> 0, safe |-> FALSE]

InitWith(grids) ==
    /\ grid0 \in grids
    /\ board = grid0
    /\ run = 1
    /\ results = <<>>
    /\ pc = "idle"
    /\ stack = <<>>
    /\ ret = FALSE
    /\ domains = NoDomains
    /\ queue = <<>>
    /\ order = "none"
    /\ probe = NoProbe

Init == InitWith(InputGrids)

\* what solve_sudoku does with ac's locals after some iterations of its loop
AcContinue(after) ==
    IF after.failed
    THEN /\ AcIdle
         /\ ret' = FALSE
         /\ pc' = "return"
    ELSE /\ domains' = after.domains
         /\ queue' = after.queue
         /\ UNCHANGED <<order, pc, ret>>

\* main, line 253: the top-level call
StartSolve ==
    /\ pc = "idle"
    /\ stack' = <<Frame(board)>>
    /\ pc' = "enter"
    /\ UNCHANGED <<grid0, board, run, results, ret, domains, queue, order, probe>>

\* line 192 with method = "backtracking": no propagation
SkipAc ==
    /\ pc = "enter"
    /\ method # "arc"
    /\ pc' = "select"
    /\ UNCHANGED <<grid0, board, run, results, stack, ret, domains, queue, order, probe>>

\* lines 192-193 and ac up to its loop, lines 124-141
AcStart ==
    /\ pc = "enter"
    /\ method = "arc"
    /\ \E ord \in NeighborOrders :
        /\ order' = ord
        /\ queue' = InitialQueue(board, ord)
    /\ domains' = InitialDomains(board)
    /\ pc' = "ac"
    /\ UNCHANGED <<grid0, board, run, results, stack, ret, probe>>

\* one iteration of "while queue", lines 143-152; an emptied domain makes ac
\* return False and solve_sudoku return False at line 195
AcRevise ==
    /\ pc = "ac"
    /\ queue # <<>>
    /\ LET after == AcIteration([domains |-> domains, queue |-> queue, failed |-> FALSE], order)
       IN  AcContinue(after)
    /\ UNCHANGED <<grid0, board, run, results, stack, probe>>

\* the same loop, taken AcBurst iterations at a time
AcReviseBurst ==
    /\ pc = "ac"
    /\ queue # <<>>
    /\ LET after == AcIterations([domains |-> domains, queue |-> queue, failed |-> FALSE],
                                 order, AcBurst)
       IN  AcContinue(after)
    /\ UNCHANGED <<grid0, board, run, results, stack, probe>>

\* line 154: the worklist is empty, ac returns True
AcSucceed ==
    /\ pc = "ac"
    /\ queue = <<>>
    /\ AcIdle
    /\ pc' = "select"
    /\ UNCHANGED <<grid0, board, run, results, stack, ret, probe>>

\* lines 197-200
Select ==
    /\ pc = "select"
    /\ LET empty == find_empty_location(board, heuristic)
       IN  IF empty = None
           THEN /\ ret' = TRUE
                /\ pc' = "return"
                /\ UNCHANGED stack
           ELSE /\ stack' = SetTop([Top EXCEPT !.row = empty[1], !.col = empty[2], !.num = 1])
                /\ pc' = "try"
                /\ UNCHANGED ret
    /\ UNCHANGED <<grid0, board, run, results, domains, queue, order, probe>>

\* lines 203-206: num is safe, assign it and recurse
TryAssign ==
    /\ pc = "try"
    /\ Top.num <= N
    /\ is_safe(board, Top.row, Top.col, Top.num)
    /\ board' = [board EXCEPT ![Top.row][Top.col] = Top.num]
    /\ stack' = Append(stack, Frame(board'))
    /\ pc' = "enter"
    /\ UNCHANGED <<grid0, run, results, ret, domains, queue, order, probe>>

\* lines 203-204: num is not safe, next num
TrySkip ==
    /\ pc = "try"
    /\ Top.num <= N
    /\ ~is_safe(board, Top.row, Top.col, Top.num)
    /\ stack' = SetTop([Top EXCEPT !.num = Top.num + 1])
    /\ UNCHANGED <<grid0, board, run, results, pc, ret, domains, queue, order, probe>>

\* line 210: range(1, 10) is exhausted
Exhausted ==
    /\ pc = "try"
    /\ Top.num > N
    /\ ret' = FALSE
    /\ pc' = "return"
    /\ UNCHANGED <<grid0, board, run, results, stack, domains, queue, order, probe>>

\* lines 206-207: the nested call returned True
ReturnTrue ==
    /\ pc = "return"
    /\ Len(stack) > 1
    /\ ret = TRUE
    /\ stack' = SubSeq(stack, 1, Len(stack) - 1)
    /\ UNCHANGED <<grid0, board, run, results, pc, ret, domains, queue, order, probe>>

\* Backtrack without line 208
BacktrackNoUndo ==
    /\ pc = "return"
    /\ Len(stack) > 1
    /\ ret = FALSE
    /\ LET caller == stack[Len(stack) - 1]
       IN  stack' = Append(SubSeq(stack, 1, Len(stack) - 2),
                           [caller EXCEPT !.num = caller.num + 1])
    /\ pc' = "try"
    /\ UNCHANGED <<grid0, board, run, results, ret, domains, queue, order, probe>>

\* Backtrack that goes on with the same num
BacktrackRetry ==
    /\ pc = "return"
    /\ Len(stack) > 1
    /\ ret = FALSE
    /\ LET caller == stack[Len(stack) - 1]
       IN  /\ board' = [board EXCEPT ![caller.row][caller.col] = 0]
           /\ stack' = SubSeq(stack, 1, Len(stack) - 1)
    /\ pc' = "try"
    /\ UNCHANGED <<grid0, run, results, ret, domains, queue, order, probe>>

\* lines 206-208: the nested call returned False, undo and go on with the loop
Backtrack ==
    /\ pc = "return"
    /\ Len(stack) > 1
    /\ ret = FALSE
    /\ LET caller == stack[Len(stack) - 1]
       IN  /\ board' = [board EXCEPT ![caller.row][caller.col] = 0]
           /\ stack' = Append(SubSeq(stack, 1, Len(stack) - 2),
                              [caller EXCEPT !.num = caller.num + 1])
    /\ pc' = "try"
    /\ UNCHANGED <<grid0, run, results, ret, domains, queue, order, probe>>

\* main, line 253: the top-level call returns
Finish ==
    /\ pc = "return"
    /\ Len(stack) = 1
    /\ results' = Append(results, ret)
    /\ stack' = <<>>
    /\ pc' = "done"
    /\ UNCHANGED <<grid0, board, run, ret, domains, queue, order, probe>>

\* the same grid is loaded again and solved under the next choice
NextRun ==
    /\ pc = "done"
    /\ run < Len(Combos)
    /\ run' = run + 1
    /\ board' = grid0
    /\ pc' = "idle"
    /\ UNCHANGED <<grid0, results, stack, ret, domains, queue, order, probe>>

Next ==
    \/ StartSolve
    \/ SkipAc
    \/ AcStart
    \/ AcRevise
    \/ AcSucceed
    \/ Select
    \/ TryAssign
    \/ TrySkip
    \/ Exhausted
    \/ ReturnTrue
    \/ Backtrack
    \/ Finish
    \/ NextRun

Spec == Init /\ [][Next]_vars

\* the same program with ac's loop taken in bursts
NextBurst ==
    \/ StartSolve
    \/ SkipAc
    \/ AcStart
    \/ AcReviseBurst
    \/ AcSucceed
    \/ Select
    \/ TryAssign
    \/ TrySkip
    \/ Exhausted
    \/ ReturnTrue
    \/ Backtrack
    \/ Finish
    \/ NextRun

\* the empty grid
InitEmpty == InitWith({EmptyGrid})

SpecEmpty == InitEmpty /\ [][NextBurst]_vars

----------------------------------------------------------------------------
(* is_safe called directly on any cell of a loaded grid *)

InitSafe ==
    /\ grid0 \in InputGrids
    /\ board = grid0
    /\ run = 1
    /\ results = <<>>
    /\ pc = "check"
    /\ stack = <<>>
    /\ ret = FALSE
    /\ domains = NoDomains
    /\ queue = <<>>
    /\ order = "none"
    /\ probe = NoProbe

CallIsSafe ==
    /\ pc = "check"
    /\ \E row \in Idx, col \in Idx, num \in Digits :
           probe' = [row |-> row, col |-> col, num |-> num,
                     safe |-> is_safe(board, row, col, num)]
    /\ pc' = "checked"
    /\ UNCHANGED <<grid0, board, run, results, stack, ret, domains, queue, order>>

NextSafe == CallIsSafe

SpecSafe == InitSafe /\ [][NextSafe]_vars

----------------------------------------------------------------------------
(* Properties *)

At(b, cell) == b[cell[1]][cell[2]]

RowCells(r) == {cell \in Cell : cell[1] = r}
ColCells(c) == {cell \in Cell : cell[2] = c}
BlockCells(cell) == {p \in Cell : p[1] \div B = cell[1] \div B /\ p[2] \div B = cell[2] \div B}

Units == {RowCells(r) : r \in Idx} \cup {ColCells(c) : c \in Idx}
         \cup {BlockCells(cell) : cell \in Cell}

\* every row, column and block holds each digit exactly once
ValidSolution(b) ==
    \A u \in Units : \A d \in Digits : Cardinality({cell \in u : At(b, cell) = d}) = 1

\* some row of g holds d in two cells
RowHasTwo(g, d) ==
    \E r \in Idx : \E c1 \in Idx, c2 \in Idx : c1 # c2 /\ g[r][c1] = d /\ g[r][c2] = d

\* the cells sharing a row, a column or a block with cell, cell excluded
Peers(cell) == (RowCells(cell[1]) \cup ColCells(cell[2]) \cup BlockCells(cell)) \ {cell}

NumEmpty(b) == Cardinality(EmptyCells(b))

AllRun == pc = "done" /\ run = Len(Combos)

\* C1: whenever a top-level solve_sudoku returns True, every row, column and
\* block of the grid holds each of 1..9 exactly once.
C1_TrueMeansValidGrid ==
    (pc = "done" /\ results[run] = TRUE) => ValidSolution(board)

\* C2: a grid with two fixed 5s in one row is reported unsatisfiable by every
\* top-level solve_sudoku call.
C2_TwoFivesInRowUnsat ==
    (pc = "done" /\ RowHasTwo(grid0, 5)) => results[run] = FALSE

\* C3: on a grid with two identical fixed digits in one row, ac fails, so
\* solve_sudoku with method arc never gets to select a cell or assign a value.
C3_AcFailsOnContradiction ==
    (method = "arc" /\ \E d \in Digits : RowHasTwo(grid0, d))
        => /\ pc \notin {"select", "try"}
           /\ (pc = "done" => results[run] = FALSE)

\* C4: the top-level calls made on one grid under the six (method, heuristic)
\* choices all return the same value.
C4_CombosAgree ==
    \A i \in 1 .. Len(results), j \in 1 .. Len(results) : results[i] = results[j]

\* all six calls were made on a grid that needed search, and failed
C4_Witness ==
    /\ AllRun
    /\ NumEmpty(grid0) >= 2
    /\ ~(\E d \in Digits : RowHasTwo(grid0, d))
    /\ results[1] = FALSE

\* How far the six calls have got.  A run is idle, searching, unwinding a
\* True result, or done; a search is as far as the candidate digits of its
\* calls, outermost first, then the position in the innermost call, then the
\* work left to ac.  These orders are finite, so steps that all advance
\* cannot go on forever.
Phase ==
    IF pc = "idle" THEN 0
    ELSE IF pc = "done" THEN 3
    ELSE IF pc = "return" /\ ret THEN 2
    ELSE 1

PcRank ==
    IF pc = "enter" THEN 0
    ELSE IF pc = "ac" THEN 1
    ELSE IF pc = "select" THEN 2
    ELSE IF pc = "try" THEN 3
    ELSE 4

Path == [k \in 1 .. Len(stack) |-> stack[k].num]

\* q is an extension of p, or holds the larger digit where they first differ
PathBefore(p, q) ==
    \/ Len(p) < Len(q) /\ \A j \in 1 .. Len(p) : p[j] = q[j]
    \/ \E k \in 1 .. Len(p) :
           /\ k <= Len(q)
           /\ p[k] < q[k]
           /\ \A j \in 1 .. (k - 1) : p[j] = q[j]

\* ac has less left to do: a domain lost values, or the worklist got shorter
AcLess ==
    \/ domains' # domains /\ \A cell \in Cell : domains'[cell] \subseteq domains[cell]
    \/ domains' = domains /\ Len(queue') < Len(queue)

Advances ==
    \/ run' > run
    \/ run' = run /\ Phase' > Phase
    \/ /\ run' = run
       /\ Phase = 1
       /\ Phase' = 1
       /\ \/ PathBefore(Path, Path')
          \/ Path' = Path /\ PcRank' > PcRank
          \/ Path' = Path /\ pc = "ac" /\ pc' = "ac" /\ AcLess
    \/ /\ run' = run
       /\ Phase = 2
       /\ Phase' = 2
       /\ Len(stack') < Len(stack)

\* C5: on the empty grid no step of the six top-level solve_sudoku calls fails
\* to advance, so each call ends, and each call that has returned returned
\* True and left a grid with no 0 that holds each digit once in every row,
\* column and block.
C5_EmptyGridSolved ==
    /\ [][Advances]_vars
    /\ [](pc = "done" => /\ results[run] = TRUE
                         /\ EmptyCells(board) = {}
                         /\ ValidSolution(board))

\* a top-level call on the empty grid has returned True with a filled grid
C5_Witness ==
    /\ pc = "done"
    /\ grid0 = EmptyGrid
    /\ results[run] = TRUE
    /\ EmptyCells(board) = {}

\* C6: every solve_sudoku call ends: every step advances, an assignment
\* leaves fewer empty cells, a call's num never goes beyond the nine values by
\* more than the step that ends its loop, the calls nest no deeper than there
\* are empty cells, and every step of ac's loop leaves ac less to do.
C6_Terminates ==
    /\ [][Advances]_vars
    /\ [][(pc = "try" /\ pc' = "enter") => NumEmpty(board') < NumEmpty(board)]_vars
    /\ [][(pc = "ac" /\ pc' = "ac") => AcLess]_vars
    /\ [](/\ \A k \in 1 .. Len(stack) : stack[k].num <= N + 1
          /\ Len(stack) <= NumEmpty(grid0) + 1)

\* all six calls returned on a grid that made the search back up
C6_Witness == AllRun /\ NumEmpty(grid0) >= 2 /\ results[Len(Combos)] = FALSE

InRowColBlockElsewhere(b, row, col, num) ==
    \E cell \in Peers(<<row, col>>) : At(b, cell) = num

InRowColBlock(b, row, col, num) ==
    \E cell \in Peers(<<row, col>>) \cup {<<row, col>>} : At(b, cell) = num

\* C7 as stated: is_safe is true iff num is in no cell of the row, column and
\* block other than (row, col) itself; the grid is left as it was.
C7_SafeIffNowhereElse ==
    pc = "checked" =>
        /\ probe.safe <=> ~InRowColBlockElsewhere(board, probe.row, probe.col, probe.num)
        /\ board = grid0

\* C7 amended: is_safe is true iff num is in no cell of the row, column and
\* block of (row, col), the cell (row, col) itself included; the grid is left
\* as it was.
C7_SafeIffNowhere ==
    pc = "checked" =>
        /\ probe.safe <=> ~InRowColBlock(board, probe.row, probe.col, probe.num)
        /\ board = grid0

\* is_safe was asked about the digit a cell holds, which is nowhere else
C7_Witness ==
    /\ pc = "checked"
    /\ At(board, <<probe.row, probe.col>>) = probe.num
    /\ ~InRowColBlockElsewhere(board, probe.row, probe.col, probe.num)
    /\ ~probe.safe

\* C8: with method arc, ac runs in the top-level call only, never in a call
\* made after an assignment.
C8_AcOnlyAtTopLevel ==
    pc = "ac" => Len(stack) = 1

\* the arcs the ac step from this state appended to the worklist
Appended == {queue'[k] : k \in Len(queue) .. Len(queue')}

\* the ac step from this state shrank a domain and went on
Shrank == pc = "ac" /\ pc' = "ac" /\ domains' # domains

\* C9 as stated: after revise(X, Y) shrank domain(X) to a non-empty set, the
\* arcs appended are exactly (X, Z) for the peers Z of X other than Y.
C9_RequeuesArcsOutOfX ==
    [][Shrank =>
        LET X == Head(queue)[1]
            Y == Head(queue)[2]
        IN  /\ Appended = {<<X, Z>> : Z \in Peers(X) \ {Y}}
            /\ Len(queue') = Len(queue) - 1 + Cardinality(Peers(X) \ {Y})]_vars

\* C9 amended: the arcs appended are exactly (Z, X) for the peers Z of X other
\* than Y, each once.
C9_RequeuesArcsIntoX ==
    [][Shrank =>
        LET X == Head(queue)[1]
            Y == Head(queue)[2]
        IN  /\ Appended = {<<Z, X>> : Z \in Peers(X) \ {Y}}
            /\ Len(queue') = Len(queue) - 1 + Cardinality(Peers(X) \ {Y})]_vars

\* ac is running and has shrunk the domain of an empty cell without emptying it
C9_Witness ==
    /\ pc = "ac"
    /\ \E cell \in EmptyCells(board) : domains[cell] # Digits /\ domains[cell] # {}

\* C10: a solve_sudoku call that returns False leaves the grid as it found it,
\* and a failed top-level call leaves the loaded grid.
C10_FailureRestoresGrid ==
    /\ (pc = "return" /\ ret = FALSE) => board = Top.entry
    /\ (pc = "done" /\ results[run] = FALSE) => board = grid0

\* a nested call has tried every digit, at least one of them was assigned and
\* undone, and it returns False
C10_Witness ==
    /\ pc = "return"
    /\ ret = FALSE
    /\ Len(stack) > 1
    /\ Top.num > N
    /\ \E num \in Digits : is_safe(board, Top.row, Top.col, num)

====
